---------------------------- MODULE Spec2Model ----------------------------
(***************************************************************************)
(* Model of the odds-portal scraper: the Crawler (season discovery and     *)
(* pagination inference, crawler.py) and the Scraper (game-row assembly    *)
(* and decimal-to-moneyline conversion, scraper.py).                       *)
(*                                                                         *)
(* Conventions.                                                            *)
(*  - A Python value that may be None is a sequence of length at most one: *)
(*    <<>> is None, <<v>> is the value v.                                  *)
(*  - A string the code only compares, concatenates or searches is a       *)
(*    sequence of tokens (each token a TLA+ string): "page/" is one token, *)
(*    a decimal digit is one token, so str.replace and the substring test  *)
(*    work on token sequences exactly as they do on characters.            *)
(*  - Decimal odds are carried in hundredths: the text "1.91" is 191.      *)
(***************************************************************************)
EXTENDS Integers, Sequences, FiniteSets, TLC

VARIABLES
    \* ---- Crawler.fill_in_season_pagination_links ----
    season_urls,    \* season.urls of the season being resolved
    page_source,    \* document held by the crawler's browser session
    go_ok,          \* value returned by the last Crawler.go_to_link
    pag_pc,         \* "ready", "returned", "RuntimeError" or "KeyError"
    \* ---- Crawler.get_seasons_for_league ----
    league_page,    \* links of the league results page held by the browser
    league_ok,      \* value returned by go_to_link(main_league_results_url)
    seasons,        \* the list the method returns
    sea_pc,         \* "ready", "returned" or "KeyError"
    \* ---- the decimal-to-moneyline conversion of one odds field ----
    odds_text,      \* text of the odds element: <<h>> reads h/100, <<>> is no number
    odds_field,     \* the Game field the conversion assigns, <<>> while unset
    odds_exc,       \* exception the conversion ended with, "none" without one
    odds_pc,        \* "ready" or "done"
    \* ---- Scraper.populate_games_into_season ----
    pop_urls,       \* season.urls
    possible_outcomes, \* season.possible_outcomes
    games,          \* season.games
    url_i,          \* position of the "for url in season.urls" loop
    rows_left,      \* rows of the current page not yet processed
    rows_done,      \* rows processed so far in the run
    game,           \* the Game of the row being processed
    game_link,      \* href of the row's event link, <<>> when there is none
    pop_pc,         \* position in the method
    \* ---- go_to_link, of the Scraper and of the Crawler ----
    nav_who,        \* "Scraper" or "Crawler": whose go_to_link is running
    nav_pc,         \* "get" (about to call driver.get), "probe", "done"
    nav_attempts,   \* calls of driver.get made so far
    nav_last,       \* how the last driver.get ended: "none", "ok", "dns", "error"
    nav_page,       \* selectors that resolve on the page the browser loaded
    nav_sel,        \* position in the selector list while probing
    nav_result,     \* <<>> while running, then <<TRUE>> or <<FALSE>>
    \* ---- the average-odds step of populate_games_into_season, on its own ----
    avg_page,       \* texts of the 'p[class="height-content"]' elements of the detail page
    avg_outcomes,   \* season.possible_outcomes
    avg_loaded,     \* value returned by go_to_link(game.game_url)
    avg_game,       \* the Game of the row
    avg_pc          \* "ready" or "done"

pagVars == <<season_urls, page_source, go_ok, pag_pc>>
seaVars == <<league_page, league_ok, seasons, sea_pc>>

oddsVars == <<odds_text, odds_field, odds_exc, odds_pc>>

popVars == <<pop_urls, possible_outcomes, games, url_i, rows_left, rows_done,
             game, game_link, pop_pc>>

navVars == <<nav_who, nav_pc, nav_attempts, nav_last, nav_page, nav_sel, nav_result>>

avgVars == <<avg_page, avg_outcomes, avg_loaded, avg_game, avg_pc>>

vars == <<pagVars, seaVars, oddsVars, popVars, navVars, avgVars>>

-----------------------------------------------------------------------------
(* Bounds of the model *)

MaxAnchors == 2     \* pagination anchors on a page
MaxPage == 4        \* page indices 1..MaxPage (and TwoDigitPage)
MaxLinks == 2       \* anchors on a league results page
MaxHundredths == 300 \* decimal odds 0.00 .. MaxHundredths/100
MaxRows == 1        \* event rows processed in one run of populate_games_into_season
MaxOddsElems == 6   \* 'p[class="height-content"]' elements on a detail page
MaxRowOdds == 3     \* odds elements inside an event row
MaxScoreParts == 2  \* parts the score text splits into

-----------------------------------------------------------------------------
(* Strings as token sequences *)

DigitChars == <<"0", "1", "2", "3", "4", "5", "6", "7", "8", "9">>

IsDigit(t) == \E k \in 1..10 : DigitChars[k] = t

DigitVal(t) == (CHOOSE k \in 1..10 : DigitChars[k] = t) - 1

\* Python str(n) for n >= 0
RECURSIVE Str(_)
Str(n) == IF n < 10 THEN <<DigitChars[n + 1]>>
          ELSE Str(n \div 10) \o <<DigitChars[(n % 10) + 1]>>

\* Python s.replace(old, new): every non-overlapping occurrence, left to right
RECURSIVE Replace(_, _, _)
Replace(s, old, new) ==
    IF Len(s) < Len(old) THEN s
    ELSE IF SubSeq(s, 1, Len(old)) = old
         THEN new \o Replace(SubSeq(s, Len(old) + 1, Len(s)), old, new)
         ELSE <<s[1]>> \o Replace(Tail(s), old, new)


-----------------------------------------------------------------------------
(* Crawler.fill_in_season_pagination_links (crawler.py 159-195) *)

\* x-page values that need two digits
TwoDigitPage == 12

PageNumbers == (1..MaxPage) \cup {TwoDigitPage}

\* href of a pagination anchor whose page-number segment is m
HrefPage(m) == <<"#/", "page/">> \o Str(m) \o <<"/">>

\* hrefs a last-page anchor reporting x-page n may carry: the same index, another
\* index, an index that only starts with the digits of n, no page segment at all
HrefsFor(n) ==
    { HrefPage(n),
      HrefPage(n + 1),
      <<"#/", "page/">> \o Str(n) \o <<"0", "/">>,
      <<"#/">> }

\* span: "none" (the anchor has no span), "other" (a span without the marker
\* text), "last" (a span whose text contains the last-page marker).
\* xpage: the x-page attribute, <<>> when the anchor has none.
PlainAnchors ==
    { [span |-> s, xpage |-> <<1>>, href |-> HrefPage(1)] : s \in {"none", "other"} }

LastAnchors ==
    { [span |-> "last", xpage |-> <<>>, href |-> HrefPage(1)] }
    \cup UNION { { [span |-> "last", xpage |-> <<n>>, href |-> h] : h \in HrefsFor(n) }
                 : n \in PageNumbers }

Anchors == PlainAnchors \cup LastAnchors

AnchorLists == UNION { [1..k -> Anchors] : k \in 0..MaxAnchors }

\* text of 'div.message-info > ul > li > div.cms' ("" when nothing matches)
NoDataTexts == {"", "No data available", "Season archived"}

Documents == [nodata : NoDataTexts, anchors : AnchorLists]

BlankDocument == [nodata |-> "", anchors |-> <<>>]

\* URLs a Season is created with (get_seasons_for_league stores the href)
FirstUrls == { <<"/nfl/results/">>, <<"/nfl-2022-2023/results/">> }

\* for link in reversed(pagination_links): the first anchor from the end whose
\* span carries the marker; 0 when there is none (last_page_number stays -1)
LastMarked(anchors) ==
    IF \E i \in 1..Len(anchors) : anchors[i].span = "last"
    THEN CHOOSE i \in 1..Len(anchors) :
            /\ anchors[i].span = "last"
            /\ \A j \in 1..Len(anchors) : anchors[j].span = "last" => j <= i
    ELSE 0

\* range(2, last_page_number) widened by one: the last page is synthesized too
RECURSIVE IntermediateUrlsInclusive(_, _, _)
IntermediateUrlsInclusive(last_page_url, last_page_number, i) ==
    IF i > last_page_number THEN <<>>
    ELSE <<Replace(last_page_url,
                   <<"page/">> \o Str(last_page_number),
                   <<"page/">> \o Str(i))>>
         \o IntermediateUrlsInclusive(last_page_url, last_page_number, i + 1)

\* for i in range(2, last_page_number): season.urls.append(last_page_url.replace(..))
RECURSIVE IntermediateUrls(_, _, _)
IntermediateUrls(last_page_url, last_page_number, i) ==
    IF i >= last_page_number THEN <<>>
    ELSE <<Replace(last_page_url,
                   <<"page/">> \o Str(last_page_number),
                   <<"page/">> \o Str(i))>>
         \o IntermediateUrls(last_page_url, last_page_number, i + 1)

\* the two early returns with "<= 1" written as "< 1"
NoPaginationStrict(doc) ==
    \/ doc.nodata = "No data available"
    \/ Len(doc.anchors) < 1

\* The two early returns: the "No data available" message, then at most one
\* pagination anchor.
NoPagination(doc) ==
    \/ doc.nodata = "No data available"
    \/ Len(doc.anchors) <= 1

\* the missing marker treated as a single-page season
NoMarkerReturns(urls) == [urls |-> urls, end |-> "returned"]

\* if last_page_number == -1: raise RuntimeError(...)
NoMarker(urls) == [urls |-> urls, end |-> "RuntimeError"]

\* The whole method on season.urls = urls with the browser holding doc after
\* go_to_link (whose result the method does not look at).
\* Result: the new season.urls and how the call ended.
FillInPagination(urls, doc) ==
    LET first_url_in_season == urls[1]
        pagination_links == doc.anchors
        m == LastMarked(pagination_links)
    IN  IF NoPagination(doc)
        THEN [urls |-> urls, end |-> "returned"]
        ELSE IF m = 0
        THEN NoMarker(urls)
        ELSE IF pagination_links[m].xpage = <<>>
        THEN [urls |-> urls, end |-> "KeyError"]
        ELSE LET last_page_number == pagination_links[m].xpage[1]
                 last_page_url == first_url_in_season \o pagination_links[m].href
             IN  [urls |-> urls \o IntermediateUrls(last_page_url, last_page_number, 2)
                                \o <<last_page_url>>,
                  end |-> "returned"]

\* the component is not part of the run
PagOff ==
    /\ season_urls = <<>>
    /\ page_source = BlankDocument
    /\ go_ok = FALSE
    /\ pag_pc = "off"

PagInit ==
    /\ season_urls \in { <<u>> : u \in FirstUrls }
    /\ page_source = BlankDocument
    /\ go_ok = FALSE
    /\ pag_pc = "ready"

\* One call of fill_in_season_pagination_links: go_to_link leaves some document
\* in the browser and returns a boolean; the rest of the method runs on it.
FillInSeasonPaginationLinks ==
    /\ pag_pc = "ready"
    /\ \E ok \in BOOLEAN, doc \in Documents :
          /\ go_ok' = ok
          /\ page_source' = doc
          /\ season_urls' = FillInPagination(season_urls, doc).urls
          /\ pag_pc' = FillInPagination(season_urls, doc).end
    /\ UNCHANGED <<seaVars, oddsVars, popVars, navVars, avgVars>>

PagNext == FillInSeasonPaginationLinks

-----------------------------------------------------------------------------
(* Properties of fill_in_season_pagination_links *)

\* The page index a URL carries: the number written after its last "page/"
\* segment, -1 when it has no such segment.
RECURSIVE ParseDigits(_, _, _)
ParseDigits(url, i, acc) ==
    IF i > Len(url) \/ ~IsDigit(url[i]) THEN acc
    ELSE ParseDigits(url, i + 1, acc * 10 + DigitVal(url[i]))

PageIndexOf(url) ==
    LET ps == { i \in 1..Len(url) : url[i] = "page/" }
    IN  IF ps = {} THEN -1
        ELSE LET p == CHOOSE i \in ps : \A j \in ps : j <= i
             IN  IF p = Len(url) \/ ~IsDigit(url[p + 1]) THEN -1
                 ELSE ParseDigits(url, p + 1, 0)

\* the anchors of doc number more than one and the one closest to the end that
\* carries the last-page marker reports page index n
ReportsLastPage(doc, n) ==
    /\ Len(doc.anchors) > 1
    /\ \E i \in 1..Len(doc.anchors) :
          /\ doc.anchors[i].span = "last"
          /\ \A j \in (i + 1)..Len(doc.anchors) : doc.anchors[j].span # "last"
          /\ doc.anchors[i].xpage = <<n>>

\* ... and the href of that anchor carries the same page index n
ReportsLastPageInHref(doc, n) ==
    /\ Len(doc.anchors) > 1
    /\ \E i \in 1..Len(doc.anchors) :
          /\ doc.anchors[i].span = "last"
          /\ \A j \in (i + 1)..Len(doc.anchors) : doc.anchors[j].span # "last"
          /\ doc.anchors[i].xpage = <<n>>
          /\ PageIndexOf(doc.anchors[i].href) = n

NoMarkerAnywhere(doc) ==
    \A i \in 1..Len(doc.anchors) : doc.anchors[i].span # "last"

\* urls "after" are the N page URLs of the season whose URL list was "before"
AllPagesInOrder(before, after, n) ==
    /\ Len(after) = n
    /\ after[1] = before[1]
    /\ \A k \in 2..n : PageIndexOf(after[k]) = k

\* a call has just run; FirstPageLoaded: its go_to_link returned True, so the
\* document the browser holds is the season's first page
CalledNow == pag_pc = "ready" /\ pag_pc' # "ready"

FirstPageLoaded == CalledNow /\ go_ok'

\* C2 as stated: whenever the page has more than one pagination anchor and a
\* last-page anchor reporting page index N >= 2, the call leaves season.urls with
\* exactly N entries, the original URL first, then page indices 2..N in order.
C2_AllPagesWheneverLastPageReported ==
    [][ \A n \in PageNumbers \ {1} :
          (FirstPageLoaded /\ ReportsLastPage(page_source', n))
             => AllPagesInOrder(season_urls, season_urls', n) ]_vars

\* C2 amended: the same, for a page that does not show "No data available" and
\* whose last-page anchor carries index N in its href as well as in x-page.
C2_AllPagesWhenHrefCarriesIndex ==
    [][ \A n \in PageNumbers \ {1} :
          (FirstPageLoaded /\ page_source'.nodata # "No data available"
                     /\ ReportsLastPageInHref(page_source', n))
             => (pag_pc' = "returned"
                 /\ AllPagesInOrder(season_urls, season_urls', n)) ]_vars

\* C2 witness: a loaded first page with last page 3 or more has been resolved
\* into one URL per page.
C2_Witness ==
    /\ pag_pc = "returned" /\ go_ok
    /\ page_source.nodata # "No data available"
    /\ \E n \in PageNumbers \ {1, 2} :
          ReportsLastPageInHref(page_source, n) /\ Len(season_urls) = n

\* C3 as stated: more than one pagination anchor and none with the last-page
\* marker always ends in RuntimeError with season.urls unchanged.
C3_RaisesWheneverNoMarker ==
    [][ (FirstPageLoaded /\ Len(page_source'.anchors) > 1 /\ NoMarkerAnywhere(page_source'))
           => (pag_pc' = "RuntimeError" /\ season_urls' = season_urls) ]_vars

\* C3 amended: it does so on every page that does not show "No data available".
C3_RaisesWhenNoMarkerAndData ==
    [][ (FirstPageLoaded /\ page_source'.nodata # "No data available"
                   /\ Len(page_source'.anchors) > 1 /\ NoMarkerAnywhere(page_source'))
           => (pag_pc' = "RuntimeError" /\ season_urls' = season_urls) ]_vars

\* C3 witness: the call raised on a loaded page with several unmarked anchors.
C3_Witness ==
    /\ pag_pc = "RuntimeError" /\ go_ok
    /\ Len(page_source.anchors) > 1 /\ NoMarkerAnywhere(page_source)
    /\ Len(season_urls) = 1

\* C4: with zero or one pagination anchor, or with the "No data available"
\* message whatever the anchors, the call returns normally and season.urls is
\* what it was.
C4_UntouchedWithoutPagination ==
    [][ (FirstPageLoaded /\ (\/ Len(page_source'.anchors) <= 1
                       \/ page_source'.nodata = "No data available"))
           => (pag_pc' = "returned" /\ season_urls' = season_urls) ]_vars

\* C4 witness: a "No data available" page that also has a complete pagination
\* block was left alone.
C4_Witness ==
    /\ pag_pc = "returned" /\ go_ok
    /\ page_source.nodata = "No data available"
    /\ \E n \in PageNumbers \ {1} : ReportsLastPageInHref(page_source, n)
    /\ Len(season_urls) = 1

\* C5: after a failed load the call has returned normally and season.urls still
\* holds the one original URL.
C5_AbortsWhenLoadFails ==
    (pag_pc # "ready" /\ ~go_ok) => (pag_pc = "returned" /\ Len(season_urls) = 1)

-----------------------------------------------------------------------------
(* Crawler.get_seasons_for_league (crawler.py 103-157) *)

\* A link of the page: href is <<>> when the anchor has no href attribute,
\* text is the anchor's text as tokens (<<>> for None or ''), within names the
\* container the anchor is nested in.
LinkHrefs ==
    { <<>>, <<"/nfl", "/results/">>, <<"/nfl-2022-2023", "/results/">>,
      <<"/nfl", "/standings/">> }

LinkTexts == { <<>>, <<"2023/2024">>, <<" ", "2022/2023", " ">> }

LinkContainers == {"none", "seasons", "filter", "tournament-nav"}

Links == [href : LinkHrefs, text : LinkTexts, within : LinkContainers]

LinkLists == UNION { [1..k -> Links] : k \in 0..MaxLinks }

\* the selectors of lines 130-135, in the order they are tried
Selectors == <<"results-href", "seasons", "filter", "tournament-nav">>

\* '/results/' in href
HasResults(href) == \E i \in 1..Len(href) : href[i] = "/results/"

\* html_querying.find(selector): the matching links in document order
Matches(selector, links) ==
    IF selector = "results-href"
    THEN SelectSeq(links, LAMBDA l : HasResults(l.href))
    ELSE SelectSeq(links, LAMBDA l : l.within = selector)

\* Python text.strip() on a token sequence whose blank tokens are " "
RECURSIVE LStrip(_)
LStrip(t) == IF t # <<>> /\ Head(t) = " " THEN LStrip(Tail(t)) ELSE t

RECURSIVE RStrip(_)
RStrip(t) == IF t # <<>> /\ t[Len(t)] = " " THEN RStrip(SubSeq(t, 1, Len(t) - 1)) ELSE t

Strip(t) == RStrip(LStrip(t))

\* Season(name) followed by urls.append(url)
NewSeason(name, url) == [name |-> name, urls |-> <<url>>]

\* for season_link in season_links: ... (lines 142-152), from link i on, with
\* the seasons collected so far; attrib['href'] raises KeyError without an href
RECURSIVE AddSeasons(_, _, _)
AddSeasons(season_links, i, acc) ==
    IF i > Len(season_links) THEN [seasons |-> acc, end |-> "returned"]
    ELSE LET season_link == season_links[i]
         IN  IF season_link.href = <<>>
             THEN [seasons |-> acc, end |-> "KeyError"]
             ELSE IF HasResults(season_link.href) /\ season_link.text # <<>>
             THEN AddSeasons(season_links, i + 1,
                             Append(acc, NewSeason(Strip(season_link.text),
                                                   season_link.href)))
             ELSE AddSeasons(season_links, i + 1, acc)

\* for selector in selectors: ... (lines 137-152), from selector k on; the loop
\* has no break, so every selector is tried whatever the earlier ones matched
RECURSIVE TrySelectors(_, _, _)
TrySelectors(links, k, acc) ==
    IF k > Len(Selectors) THEN [seasons |-> acc, end |-> "returned"]
    ELSE LET season_links == Matches(Selectors[k], links)
         IN  IF season_links = <<>>
             THEN TrySelectors(links, k + 1, acc)
             ELSE LET r == AddSeasons(season_links, 1, acc)
                  IN  IF r.end # "returned" THEN r
                      ELSE TrySelectors(links, k + 1, r.seasons)

\* the whole method: an empty list when the load fails
GetSeasonsForLeague(ok, links) ==
    IF ~ok THEN [seasons |-> <<>>, end |-> "returned"]
    ELSE TrySelectors(links, 1, <<>>)

SeaOff ==
    /\ league_page = <<>>
    /\ league_ok = FALSE
    /\ seasons = <<>>
    /\ sea_pc = "off"

SeaInit ==
    /\ league_page = <<>>
    /\ league_ok = FALSE
    /\ seasons = <<>>
    /\ sea_pc = "ready"

\* One call of get_seasons_for_league; a call that raises returns no list.
GetSeasons ==
    /\ sea_pc = "ready"
    /\ \E ok \in BOOLEAN, links \in LinkLists :
          LET r == GetSeasonsForLeague(ok, links)
          IN  /\ league_ok' = ok
              /\ league_page' = links
              /\ seasons' = IF r.end = "returned" THEN r.seasons ELSE <<>>
              /\ sea_pc' = r.end
    /\ UNCHANGED <<pagVars, oddsVars, popVars, navVars, avgVars>>

SeaNext == GetSeasons

-----------------------------------------------------------------------------
(* Properties of get_seasons_for_league *)

\* the matches of the first selector, in priority order, that matches anything
RECURSIVE FirstPatternMatches(_, _)
FirstPatternMatches(links, k) ==
    IF k > Len(Selectors) THEN <<>>
    ELSE IF Matches(Selectors[k], links) # <<>> THEN Matches(Selectors[k], links)
    ELSE FirstPatternMatches(links, k + 1)

\* one Season per link that has a results href and a text, in order
RECURSIVE OneSeasonPerLink(_)
OneSeasonPerLink(ls) ==
    IF ls = <<>> THEN <<>>
    ELSE (IF ls[1].href # <<>> /\ HasResults(ls[1].href) /\ ls[1].text # <<>>
          THEN <<NewSeason(Strip(ls[1].text), ls[1].href)>> ELSE <<>>)
         \o OneSeasonPerLink(Tail(ls))

\* C10: the list returned for a loaded page holds exactly the Seasons of the
\* links matched by the first selector that matches anything: one Season per
\* link, nothing from the selectors after it.
C10_StopsAtFirstMatchingPattern ==
    (sea_pc = "returned" /\ league_ok)
       => seasons = OneSeasonPerLink(FirstPatternMatches(league_page, 1))

-----------------------------------------------------------------------------
(* The decimal-to-moneyline conversion (scraper.py 178-180, 185-187, 193-195,  *)
(* 228-229), on decimal odds in hundredths                                     *)

\* int() where round() is meant: the quotient cut toward zero
RoundTowardZero(num, den) ==
    LET n == IF den < 0 THEN -num ELSE num
        d == IF den < 0 THEN -den ELSE den
        f == n \div d
    IN  IF n - f * d = 0 \/ n >= 0 THEN f ELSE f + 1

\* Python round(num / den) of the float quotient, den # 0.  A quotient strictly
\* between two halves goes to the nearest integer.  The quotient would be an
\* exact half only for the texts "0.68" and "1.32" (100/0.32 = 312.5); there
\* d - 1 is not exact in IEEE doubles (-0.31999999999999995 and
\* 0.32000000000000006), the float quotient is 312.50000000000006 and
\* -312.49999999999994, above the half both times, and round() gives the upper
\* integer, 313 and -312.
RoundNearest(num, den) ==
    LET n == IF den < 0 THEN -num ELSE num
        d == IF den < 0 THEN -den ELSE den
        f == n \div d
        r == n - f * d
    IN  IF 2 * r < d THEN f ELSE f + 1

\* the conversion with ">= 2.00" written as "> 2.00"
MoneylineStrict(h) ==
    IF h > 200 THEN RoundNearest(h - 100, 1)
    ELSE RoundNearest(-10000, h - 100)

\* round((d - 1) * 100) if d >= 2.00 else round(-100 / (d - 1)), d = h/100, h # 100
Moneyline(h) ==
    IF h >= 200 THEN RoundNearest(h - 100, 1)
    ELSE RoundNearest(-10000, h - 100)

\* try: x = float(text); field = <conversion>  except (ValueError,
\* ZeroDivisionError): float() raises ValueError on a text that is no number,
\* the division raises ZeroDivisionError at d = 1.0; the field is assigned only
\* when neither happens.
ConvertOdds(text) ==
    IF text = <<>> THEN [val |-> <<>>, exc |-> "ValueError"]
    ELSE IF text[1] = 100 THEN [val |-> <<>>, exc |-> "ZeroDivisionError"]
    ELSE [val |-> <<Moneyline(text[1])>>, exc |-> "none"]

OddsTexts == { <<>> } \cup { <<h>> : h \in 0..MaxHundredths }

OddsOff ==
    /\ odds_text = <<>>
    /\ odds_field = <<>>
    /\ odds_exc = "none"
    /\ odds_pc = "off"

\* a fresh Game (field unset) and the text of the element to convert
OddsInit ==
    /\ odds_text \in OddsTexts
    /\ odds_field = <<>>
    /\ odds_exc = "none"
    /\ odds_pc = "ready"

\* the try block of one odds field
ConvertOddsField ==
    /\ odds_pc = "ready"
    /\ odds_field' = ConvertOdds(odds_text).val
    /\ odds_exc' = ConvertOdds(odds_text).exc
    /\ odds_pc' = "done"
    /\ UNCHANGED <<odds_text, pagVars, seaVars, popVars, navVars, avgVars>>

OddsNext == ConvertOddsField

-----------------------------------------------------------------------------
(* Properties of the conversion *)

\* the conversion ran on the text of the decimal odds h/100
Converted(h) == odds_pc = "done" /\ odds_text = <<h>>

\* v is an integer nearest to num/den (den > 0)
NearestTo(v, num, den) ==
    /\ 2 * (v * den - num) <= den
    /\ 2 * (num - v * den) <= den

\* C6: decimal odds of 2.00 and more give round((d-1)*100), which is d in
\* hundredths minus 100 and is not negative; decimal odds strictly between 1.0
\* and 2.00 give the integer nearest to -100/(d-1), which is negative.
C6_MoneylineOfValidOdds ==
    \A h \in 101..MaxHundredths :
        Converted(h) =>
            /\ odds_exc = "none"
            /\ Len(odds_field) = 1
            /\ h >= 200 => (odds_field[1] = h - 100 /\ odds_field[1] >= 0)
            /\ h < 200 => (NearestTo(odds_field[1], -10000, h - 100) /\ odds_field[1] < 0)

\* C6 witness: the scenario of the specification, 1.91 converted to -110
C6_Witness == Converted(191) /\ odds_field = <<-110>>

\* C7: the conversion of decimal odds of 1.0 or less produces no moneyline value.
C7_FailsAtOrBelowOne ==
    \A h \in 0..100 : Converted(h) => odds_field = <<>>

\* C8 as stated: decimal odds of exactly 2.00 are converted to the moneyline 0.
C8_EvenMoneyIsZero == Converted(200) => odds_field = <<0>>

\* C8 amended: decimal odds of exactly 2.00 are converted to the moneyline 100.
C8_EvenMoneyIsHundred == Converted(200) => odds_field = <<100>>

\* C8 witness: the text "2.00" has been converted and the field is set
C8_Witness == Converted(200) /\ odds_exc = "none" /\ odds_field # <<>>

-----------------------------------------------------------------------------
(* Scraper.populate_games_into_season (scraper.py 127-292) *)

\* all sequences over S of length at most n
ListsUpTo(S, n) == UNION { [1..k -> S] : k \in 0..n }

Max(a, b) == IF a >= b THEN a ELSE b

BaseUrl == "https://www.oddsportal.com"

\* href of the row's 'a[href*="/american-football/"]', <<>> when attr() gives None
GameLinks == { <<>>, <<"/american-football/usa/nfl/eagles-giants-x1/">> }

\* season.urls of the season being populated: two pages
PopUrlLists == { <<"results/", "results/#/page/2/">> }

\* texts of the odds elements of a detail page and of a row
AvgOddsTexts == { <<>>, <<100>>, <<191>> }

RowOddsTexts == { <<>>, <<100>>, <<250>> }

\* texts of the participant-name elements, as tokens
NameTexts == { <<>>, <<"Eagles", " ">> }

\* parts of the score text around the en-dash: <<n>> reads as the integer n,
\* <<>> is a part int() rejects
ScoreParts == { <<>>, <<0>>, <<1>> }

\* the score element: <<>> when the row has none, else <<parts>>
ScoreTexts ==
    { <<>> } \cup { <<ps>> : ps \in ListsUpTo(ScoreParts, MaxScoreParts) \ { <<>> } }

\* outcome of the public-percentage poll: <<>> when the wait or the parse fails
PubResults == { <<>>, <<55>> }

\* Game(): every field unset, the outcome not known
NewGame ==
    [ team_home |-> <<>>, team_away |-> <<>>,
      score_home |-> <<>>, score_away |-> <<>>, outcome |-> "UNKNOWN",
      odds_home |-> <<>>, odds_away |-> <<>>, odds_draw |-> <<>>,
      final_odds_home |-> <<>>, final_odds_away |-> <<>>, final_odds_draw |-> <<>>,
      pub_percent |-> <<>>, game_url |-> <<>>,
      retrieval_url |-> <<>>, retrieval_datetime |-> <<>>,
      num_possible_outcomes |-> <<>> ]

\* season.add_game(game)
AddGame(gs, g) == Append(gs, g)

\* list(...)[-6:-3]
AverageSlice(elems) ==
    SubSeq(elems, Max(Len(elems) - 6, 0) + 1, Max(Len(elems) - 3, 0))

\* The element lists of a detail page.  The elements the slice drops are never
\* read, so one text stands for all of theirs.
DetailPages ==
    { es \in ListsUpTo(AvgOddsTexts, MaxOddsElems) :
        \A i \in 1..Len(es) :
            \/ (Max(Len(es) - 6, 0) < i /\ i <= Max(Len(es) - 3, 0))
            \/ es[i] = <<191>> }

\* Lines 176-181.  A text that does not convert sends control to the handler of
\* line 181, which calls .text() on the list and so raises AttributeError: the
\* try of line 167 ends there (cont = FALSE).
AverageHome(g, elems) ==
    IF elems = <<>> THEN [g |-> g, cont |-> TRUE]
    ELSE LET r == ConvertOdds(elems[1])
         IN  IF r.exc = "none"
             THEN [g |-> [g EXCEPT !.odds_home = r.val], cont |-> TRUE]
             ELSE [g |-> g, cont |-> FALSE]

\* Lines 184-188, inside the "if home_odds_elem:" block.  A missing second
\* element raises IndexError, which the inner handler does not catch; a text
\* that does not convert ends in the AttributeError of line 188.
AverageAway(st, elems) ==
    IF ~st.cont \/ elems = <<>> THEN st
    ELSE IF Len(elems) < 2 THEN [g |-> st.g, cont |-> FALSE]
    ELSE LET r == ConvertOdds(elems[2])
         IN  IF r.exc = "none"
             THEN [g |-> [st.g EXCEPT !.odds_away = r.val], cont |-> TRUE]
             ELSE [g |-> st.g, cont |-> FALSE]

\* Lines 191-196.  The handler of line 196 indexes the list and only logs.
AverageDraw(st, elems, outcomes) ==
    IF ~st.cont \/ outcomes # 3 THEN st.g
    ELSE IF Len(elems) < 3 THEN st.g
    ELSE LET r == ConvertOdds(elems[3])
         IN  IF r.exc = "none" THEN [st.g EXCEPT !.odds_draw = r.val] ELSE st.g

\* Lines 163-199 on the elements of the loaded detail page
AverageOddsOf(g, all_elems, outcomes) ==
    LET elems == AverageSlice(all_elems)
    IN  AverageDraw(AverageAway(AverageHome(g, elems), elems), elems, outcomes)

\* Lines 203-208: first and last participant name
TeamsOf(g, names) ==
    IF names = <<>> THEN g
    ELSE [g EXCEPT !.team_home = <<Strip(names[1])>>,
                   !.team_away = <<Strip(names[Len(names)])>>]

\* Lines 211-216: exc is "ValueError" when int() rejects a part
ScoresOf(g, score) ==
    IF score = <<>> \/ Len(score[1]) # 2 THEN [g |-> g, exc |-> "none"]
    ELSE IF score[1][1] = <<>> \/ score[1][2] = <<>>
    THEN [g |-> g, exc |-> "ValueError"]
    ELSE [g |-> [g EXCEPT !.score_home = score[1][1], !.score_away = score[1][2]],
          exc |-> "none"]

\* Lines 220-222
MetadataOf(g, url, outcomes) ==
    [g EXCEPT !.retrieval_datetime = <<"now">>,
              !.retrieval_url = <<url>>,
              !.num_possible_outcomes = <<outcomes>>]

\* Lines 226-235 from element i on: float() and the division raise out of the
\* row's try block
RECURSIVE RowOddsOf(_, _, _, _)
RowOddsOf(g, odds_elems, i, outcomes) ==
    IF i > Len(odds_elems) THEN [g |-> g, exc |-> "none"]
    ELSE LET r == ConvertOdds(odds_elems[i])
         IN  IF r.exc # "none" THEN [g |-> g, exc |-> r.exc]
             ELSE RowOddsOf(
                    IF i = 1 THEN [g EXCEPT !.final_odds_home = r.val]
                    ELSE IF i = 2 THEN [g EXCEPT !.final_odds_away = r.val]
                    ELSE IF i = 3 /\ outcomes = 3 THEN [g EXCEPT !.final_odds_draw = r.val]
                    ELSE g,
                    odds_elems, i + 1, outcomes)

\* the comparison of lines 239-244 with the two sides exchanged
OutcomeOfSwapped(score_home, score_away) ==
    IF score_home < score_away THEN "HOME"
    ELSE IF score_home > score_away THEN "AWAY"
    ELSE "DRAW"

\* Lines 239-244
OutcomeOf(score_home, score_away) ==
    IF score_home > score_away THEN "HOME"
    ELSE IF score_home < score_away THEN "AWAY"
    ELSE "DRAW"

\* Lines 238-244
WithOutcome(g) ==
    IF g.score_home # <<>> /\ g.score_away # <<>>
    THEN [g EXCEPT !.outcome = OutcomeOf(g.score_home[1], g.score_away[1])]
    ELSE g

\* Python truth of a field: None, the empty string and 0 are false
TruthyText(f) == f # <<>> /\ f[1] # <<>>

TruthyInt(f) == f # <<>> /\ f[1] # 0

\* the test of line 284 without its last operand
CompleteButAway(g) ==
    TruthyText(g.team_home) /\ TruthyText(g.team_away) /\ TruthyInt(g.odds_home)

\* Line 284
Complete(g) ==
    /\ TruthyText(g.team_home) /\ TruthyText(g.team_away)
    /\ TruthyInt(g.odds_home) /\ TruthyInt(g.odds_away)

PopOff ==
    /\ pop_urls = <<>>
    /\ possible_outcomes = 2
    /\ games = <<>>
    /\ url_i = 1
    /\ rows_left = 0
    /\ rows_done = 0
    /\ game = NewGame
    /\ game_link = <<>>
    /\ pop_pc = "off"

\* a discovered season with no games yet, at the head of the url loop
PopInit ==
    /\ pop_urls \in PopUrlLists
    /\ possible_outcomes \in {2, 3}
    /\ games = <<>>
    /\ url_i = 1
    /\ rows_left = 0
    /\ rows_done = 0
    /\ game = NewGame
    /\ game_link = <<>>
    /\ pop_pc = "page"

\* the row is over (appended, found incomplete, or skipped by the handler of
\* lines 288-290): on to the next row
NextRow ==
    /\ rows_left' = rows_left - 1
    /\ game' = NewGame
    /\ game_link' = <<>>
    /\ pop_pc' = "row"

\* Lines 134-151: load the next url; a failed load skips the page
LoadPage ==
    /\ pop_pc = "page" /\ url_i <= Len(pop_urls)
    /\ \E ok \in BOOLEAN, n \in 0..(MaxRows - rows_done) :
          IF ok
          THEN /\ rows_left' = n
               /\ rows_done' = rows_done + n
               /\ pop_pc' = "row"
               /\ UNCHANGED url_i
          ELSE /\ url_i' = url_i + 1
               /\ UNCHANGED <<rows_left, rows_done, pop_pc>>
    /\ UNCHANGED <<pop_urls, possible_outcomes, games, game, game_link>>
    /\ UNCHANGED <<pagVars, seaVars, oddsVars, navVars, avgVars>>

\* Line 292: the rows of the page are done
EndPage ==
    /\ pop_pc = "row" /\ rows_left = 0
    /\ url_i' = url_i + 1
    /\ pop_pc' = "page"
    /\ UNCHANGED <<pop_urls, possible_outcomes, games, rows_left, rows_done,
                   game, game_link>>
    /\ UNCHANGED <<pagVars, seaVars, oddsVars, navVars, avgVars>>

\* the url loop is exhausted: the method returns
Return ==
    /\ pop_pc = "page" /\ url_i > Len(pop_urls)
    /\ pop_pc' = "done"
    /\ UNCHANGED <<pop_urls, possible_outcomes, games, url_i, rows_left, rows_done,
                   game, game_link>>
    /\ UNCHANGED <<pagVars, seaVars, oddsVars, navVars, avgVars>>

\* Lines 155-161: a new Game and the row's event link
StartRow ==
    /\ pop_pc = "row" /\ rows_left > 0
    /\ \E link \in GameLinks :
          /\ game_link' = link
          /\ IF link # <<>>
             THEN /\ game' = [NewGame EXCEPT
                                !.game_url = <<<<BaseUrl, link[1], "#home-away;8">>>>]
                  /\ pop_pc' = "avg"
             ELSE /\ game' = NewGame
                  /\ pop_pc' = "teams"
    /\ UNCHANGED <<pop_urls, possible_outcomes, games, url_i, rows_left, rows_done>>
    /\ UNCHANGED <<pagVars, seaVars, oddsVars, navVars, avgVars>>

\* Lines 163-199: the average-odds view
AverageOdds ==
    /\ pop_pc = "avg"
    /\ \E ok \in BOOLEAN, all_elems \in DetailPages :
          game' = IF ok THEN AverageOddsOf(game, all_elems, possible_outcomes) ELSE game
    /\ pop_pc' = "teams"
    /\ UNCHANGED <<pop_urls, possible_outcomes, games, url_i, rows_left, rows_done,
                   game_link>>
    /\ UNCHANGED <<pagVars, seaVars, oddsVars, navVars, avgVars>>

\* Lines 203-208
Teams ==
    /\ pop_pc = "teams"
    /\ \E names \in ListsUpTo(NameTexts, 2) : game' = TeamsOf(game, names)
    /\ pop_pc' = "scores"
    /\ UNCHANGED <<pop_urls, possible_outcomes, games, url_i, rows_left, rows_done,
                   game_link>>
    /\ UNCHANGED <<pagVars, seaVars, oddsVars, navVars, avgVars>>

\* Lines 211-216; a ValueError skips the row
Scores ==
    /\ pop_pc = "scores"
    /\ \E score \in ScoreTexts :
          LET r == ScoresOf(game, score)
          IN  IF r.exc = "none"
              THEN /\ game' = r.g
                   /\ pop_pc' = "row_odds"
                   /\ UNCHANGED <<rows_left, game_link>>
              ELSE NextRow
    /\ UNCHANGED <<pop_urls, possible_outcomes, games, url_i, rows_done>>
    /\ UNCHANGED <<pagVars, seaVars, oddsVars, navVars, avgVars>>

\* Lines 220-244: metadata, the odds shown in the row, the outcome; an odds text
\* that does not convert skips the row
RowOdds ==
    /\ pop_pc = "row_odds"
    /\ \E odds_elems \in ListsUpTo(RowOddsTexts, MaxRowOdds) :
          LET r == RowOddsOf(MetadataOf(game, pop_urls[url_i], possible_outcomes),
                             odds_elems, 1, possible_outcomes)
          IN  IF r.exc = "none"
              THEN /\ game' = WithOutcome(r.g)
                   /\ pop_pc' = "pub"
                   /\ UNCHANGED <<rows_left, game_link>>
              ELSE NextRow
    /\ UNCHANGED <<pop_urls, possible_outcomes, games, url_i, rows_done>>
    /\ UNCHANGED <<pagVars, seaVars, oddsVars, navVars, avgVars>>

\* Lines 247-274: the public-percentage view; the poll runs whether or not
\* the load succeeded, and everything it raises is caught
PubPercent ==
    /\ pop_pc = "pub"
    /\ IF game_link # <<>>
       THEN \E ok \in BOOLEAN, pub \in PubResults :
               game' = [game EXCEPT
                          !.game_url = <<<<BaseUrl, game_link[1], "#home-away;1">>>>,
                          !.pub_percent = pub]
       ELSE game' = game
    /\ pop_pc' = "append"
    /\ UNCHANGED <<pop_urls, possible_outcomes, games, url_i, rows_left, rows_done,
                   game_link>>
    /\ UNCHANGED <<pagVars, seaVars, oddsVars, navVars, avgVars>>

\* Lines 284-286
AddIfComplete ==
    /\ pop_pc = "append"
    /\ games' = IF Complete(game) THEN AddGame(games, game) ELSE games
    /\ NextRow
    /\ UNCHANGED <<pop_urls, possible_outcomes, url_i, rows_done>>
    /\ UNCHANGED <<pagVars, seaVars, oddsVars, navVars, avgVars>>

PopNext ==
    \/ LoadPage \/ EndPage \/ Return
    \/ StartRow \/ AverageOdds \/ Teams \/ Scores \/ RowOdds \/ PubPercent
    \/ AddIfComplete

-----------------------------------------------------------------------------
(* Properties of populate_games_into_season *)

\* C1: every Game in season.games has team_home, team_away, odds_home and
\* odds_away set.
C1_AppendedGamesAreComplete ==
    \A i \in 1..Len(games) :
        /\ games[i].team_home # <<>> /\ games[i].team_away # <<>>
        /\ games[i].odds_home # <<>> /\ games[i].odds_away # <<>>

\* C1 witness: the method has returned with a Game appended
C1_Witness == pop_pc = "done" /\ Len(games) >= 1

\* C9: in every appended Game the outcome is HOME exactly when both scores are
\* set and home is greater, AWAY exactly when both are set and home is less,
\* DRAW exactly when both are set and equal, UNKNOWN exactly when one is unset.
C9_OutcomeFollowsScores ==
    \A i \in 1..Len(games) :
        LET g == games[i]
            both == g.score_home # <<>> /\ g.score_away # <<>>
        IN  /\ g.outcome = "HOME" <=> (both /\ g.score_home[1] > g.score_away[1])
            /\ g.outcome = "AWAY" <=> (both /\ g.score_home[1] < g.score_away[1])
            /\ g.outcome = "DRAW" <=> (both /\ g.score_home[1] = g.score_away[1])
            /\ g.outcome = "UNKNOWN" <=> ~both

\* C9 witness: an appended Game with the score 1-0, won by the home side
C9_Witness ==
    \E i \in 1..Len(games) :
        games[i].outcome = "HOME" /\ games[i].score_home = <<1>>
                                  /\ games[i].score_away = <<0>>

-----------------------------------------------------------------------------
(* The average-odds step (scraper.py 160-199) on one detail page *)

AvgOff ==
    /\ avg_page = <<>>
    /\ avg_outcomes = 2
    /\ avg_loaded = FALSE
    /\ avg_game = NewGame
    /\ avg_pc = "off"

\* a row with an event link, its Game created (lines 155-160), and the detail
\* page the site serves for it
AvgInit ==
    /\ avg_page \in DetailPages
    /\ avg_outcomes \in {2, 3}
    /\ avg_loaded = FALSE
    /\ avg_game \in { [NewGame EXCEPT !.game_url = <<<<BaseUrl, l[1], "#home-away;8">>>>]
                      : l \in GameLinks \ { <<>> } }
    /\ avg_pc = "ready"

\* Lines 163-199
AverageOddsStep ==
    /\ avg_pc = "ready"
    /\ \E ok \in BOOLEAN :
          /\ avg_loaded' = ok
          /\ avg_game' = IF ok THEN AverageOddsOf(avg_game, avg_page, avg_outcomes)
                         ELSE avg_game
    /\ avg_pc' = "done"
    /\ UNCHANGED <<avg_page, avg_outcomes>>
    /\ UNCHANGED <<pagVars, seaVars, oddsVars, popVars, navVars>>

AvgNext == AverageOddsStep

-----------------------------------------------------------------------------
(* Properties of the average-odds step *)

\* the odds field read from position k of the slice
OddsFieldAt(g, k) ==
    IF k = 1 THEN g.odds_home ELSE IF k = 2 THEN g.odds_away ELSE g.odds_draw

\* positions of the slice the step converts: home, away, and draw for a
\* three-outcome season
OddsPositions(elems, outcomes) ==
    { k \in 1..Len(elems) : k <= (IF outcomes = 3 THEN 3 ELSE 2) }

\* a text float() rejects; a text that converts to a moneyline
Unparsable(text) == text = <<>>

Converts(text) == text # <<>> /\ text[1] # 100

\* C12: on a loaded detail page whose converted values are each unparsable or
\* valid, with at least one unparsable, every valid value still sets its own
\* field: an unparsable home value does not keep odds_away or odds_draw unset,
\* and likewise for the other fields.
C12_UnparsableLeavesOthersSet ==
    LET elems == AverageSlice(avg_page)
        ks == OddsPositions(elems, avg_outcomes)
    IN  (/\ avg_pc = "done" /\ avg_loaded
         /\ \A k \in ks : Unparsable(elems[k]) \/ Converts(elems[k])
         /\ \E k \in ks : Unparsable(elems[k]))
        => \A k \in ks :
              Converts(elems[k]) => OddsFieldAt(avg_game, k) = <<Moneyline(elems[k][1])>>

-----------------------------------------------------------------------------
(* go_to_link: Scraper (scraper.py 82-114) and Crawler (crawler.py 54-90) *)

\* max_retries of Scraper.go_to_link
max_retries == 3

\* the selectors each go_to_link probes, in order
ScraperProbes == <<".button-dark", "div[class*=main]", "table">>

CrawlerProbes ==
    <<".button-dark", "button[data-login]", "a[href*=login]", "#login-button",
      "div[class*=main]", "div[class*=content]", "nav", "header", "table",
      "div[class*=odds]">>

ProbesOf(who) == IF who = "Scraper" THEN ScraperProbes ELSE CrawlerProbes

\* A loaded page, as the set of probed selectors that resolve on it
NavPages == SUBSET { CrawlerProbes[i] : i \in 1..Len(CrawlerProbes) }

\* How driver.get can end: normally, with a WebDriverException whose message
\* holds ERR_NAME_NOT_RESOLVED, or with any other WebDriverException
GetOutcomes == {"ok", "dns", "error"}

NavOff ==
    /\ nav_who = "none"
    /\ nav_pc = "off"
    /\ nav_attempts = 0
    /\ nav_last = "none"
    /\ nav_page = {}
    /\ nav_sel = 0
    /\ nav_result = <<>>

\* go_to_link has just been called
NavInit ==
    /\ nav_who \in {"Scraper", "Crawler"}
    /\ nav_pc = "get"
    /\ nav_attempts = 0
    /\ nav_last = "none"
    /\ nav_page = {}
    /\ nav_sel = 0
    /\ nav_result = <<>>

\* return b
NavReturn(b) ==
    /\ nav_pc' = "done"
    /\ nav_result' = <<b>>

\* the page loaded: on to the first selector
NavLoaded(page) ==
    /\ nav_page' = page
    /\ nav_sel' = 1
    /\ nav_pc' = "probe"
    /\ UNCHANGED nav_result

\* Scraper, lines 88-91 and 105-114: one pass of "for attempt in
\* range(max_retries)" up to the probe.  A DNS failure sleeps and continues the
\* loop, which line 113 leaves with False once the range is exhausted; any other
\* WebDriverException returns False.
ScraperGet ==
    /\ nav_who = "Scraper" /\ nav_pc = "get" /\ nav_attempts < max_retries
    /\ nav_attempts' = nav_attempts + 1
    /\ \E outcome \in GetOutcomes :
          /\ nav_last' = outcome
          /\ IF outcome = "ok"
             THEN \E page \in NavPages : NavLoaded(page)
             ELSE IF outcome = "dns"
             THEN IF nav_attempts + 1 < max_retries
                  THEN UNCHANGED <<nav_pc, nav_result, nav_page, nav_sel>>
                  ELSE NavReturn(FALSE) /\ UNCHANGED <<nav_page, nav_sel>>
             ELSE NavReturn(FALSE) /\ UNCHANGED <<nav_page, nav_sel>>
    /\ UNCHANGED <<nav_who, pagVars, seaVars, oddsVars, popVars, avgVars>>

\* Crawler, lines 59-62 and 88-90: the one driver.get; every exception, the
\* DNS failure included, returns False
CrawlerGet ==
    /\ nav_who = "Crawler" /\ nav_pc = "get"
    /\ nav_attempts' = nav_attempts + 1
    /\ \E outcome \in GetOutcomes :
          /\ nav_last' = outcome
          /\ IF outcome = "ok"
             THEN \E page \in NavPages : NavLoaded(page)
             ELSE NavReturn(FALSE) /\ UNCHANGED <<nav_page, nav_sel>>
    /\ UNCHANGED <<nav_who, pagVars, seaVars, oddsVars, popVars, avgVars>>

\* One turn of "for selector in selectors" (scraper.py 95-103, crawler.py
\* 78-86): True at the first selector that resolves, False after the last
Probe(who) ==
    /\ nav_who = who /\ nav_pc = "probe"
    /\ IF ProbesOf(who)[nav_sel] \in nav_page
       THEN NavReturn(TRUE) /\ UNCHANGED nav_sel
       ELSE IF nav_sel = Len(ProbesOf(who))
       THEN NavReturn(FALSE) /\ UNCHANGED nav_sel
       ELSE nav_sel' = nav_sel + 1 /\ UNCHANGED <<nav_pc, nav_result>>
    /\ UNCHANGED <<nav_who, nav_attempts, nav_last, nav_page>>
    /\ UNCHANGED <<pagVars, seaVars, oddsVars, popVars, avgVars>>

ScraperProbe == Probe("Scraper")

CrawlerProbe == Probe("Crawler")

NavNext == ScraperGet \/ ScraperProbe \/ CrawlerGet \/ CrawlerProbe

-----------------------------------------------------------------------------
(* Properties of go_to_link *)

\* some selector of the running go_to_link resolves on the loaded page
SomeProbeMatches ==
    \E i \in 1..Len(ProbesOf(nav_who)) : ProbesOf(nav_who)[i] \in nav_page

\* The retry and probe policy, as a condition on every state of a page load:
\* at most three navigation attempts; after a DNS failure with attempts left
\* the load is about to navigate again, after the third it has ended with
\* false; after any other navigation error it has ended with false; a load
\* that ended on a rendered page gave true exactly when a selector resolved,
\* stopping at the first one that does.
LoadPolicy ==
    /\ nav_attempts <= 3
    /\ (nav_last = "dns" /\ nav_attempts < 3) => (nav_pc = "get" /\ nav_result = <<>>)
    /\ (nav_last = "dns" /\ nav_attempts = 3) => (nav_pc = "done" /\ nav_result = <<FALSE>>)
    /\ nav_last = "error" => (nav_pc = "done" /\ nav_result = <<FALSE>>)
    /\ (nav_last = "ok" /\ nav_pc = "done") =>
          /\ nav_result = <<SomeProbeMatches>>
          /\ SomeProbeMatches =>
                /\ ProbesOf(nav_who)[nav_sel] \in nav_page
                /\ \A j \in 1..(nav_sel - 1) : ProbesOf(nav_who)[j] \notin nav_page
    /\ nav_pc = "done" => nav_result \in { <<TRUE>>, <<FALSE>> }

\* C11: every page load, of the Scraper and of the Crawler, follows the retry
\* and probe policy in every state and ends with a boolean.
C11_BoundedRetriesThenBoolean ==
    /\ [](nav_who \in {"Scraper", "Crawler"} => LoadPolicy)
    /\ <>(nav_pc = "done" /\ nav_result \in { <<TRUE>>, <<FALSE>> })

\* the same for the loads of the Scraper alone
ScraperBoundedRetriesThenBoolean ==
    /\ [](nav_who = "Scraper" => LoadPolicy)
    /\ <>(nav_pc = "done" /\ nav_result \in { <<TRUE>>, <<FALSE>> })

-----------------------------------------------------------------------------
(* Specifications *)

\* Each specification runs one component from its initial state, the others
\* being left out of the run.
InitPagination ==
    /\ PagInit
    /\ SeaOff
    /\ OddsOff
    /\ PopOff
    /\ NavOff
    /\ AvgOff

SpecPagination == InitPagination /\ [][PagNext]_vars

InitSeasons ==
    /\ SeaInit
    /\ PagOff
    /\ OddsOff
    /\ PopOff
    /\ NavOff
    /\ AvgOff

SpecSeasons == InitSeasons /\ [][SeaNext]_vars

InitOdds ==
    /\ OddsInit
    /\ PagOff
    /\ SeaOff
    /\ PopOff
    /\ NavOff
    /\ AvgOff

SpecOdds == InitOdds /\ [][OddsNext]_vars

InitPopulate ==
    /\ PopInit
    /\ PagOff
    /\ SeaOff
    /\ OddsOff
    /\ NavOff
    /\ AvgOff

SpecPopulate == InitPopulate /\ [][PopNext]_vars

\* go_to_link runs to its return: the code between two steps always finishes
\* (a bounded sleep, one driver call), so a load that can step does step.
InitNavigation ==
    /\ NavInit
    /\ PagOff
    /\ SeaOff
    /\ OddsOff
    /\ PopOff
    /\ AvgOff

SpecNavigation == InitNavigation /\ [][NavNext]_vars /\ WF_vars(NavNext)

InitAverageOdds ==
    /\ AvgInit
    /\ PagOff
    /\ SeaOff
    /\ OddsOff
    /\ PopOff
    /\ NavOff

SpecAverageOdds == InitAverageOdds /\ [][AvgNext]_vars

=============================================================================
